---- MODULE Spec2Model ----
(***************************************************************************)
(* A model of LeakyBumpAlloc (src/src/bumpalloc.rs): one block reserved    *)
(* from the system allocator, a cursor bumped downward from end to start.  *)
(* Addresses and sizes are usize values of a WordBits-bit machine word.    *)
(***************************************************************************)
EXTENDS Integers, Sequences, FiniteSets

\* ---------------------------------------------------------------- bounds
\* Width of usize in bits (the model's machine word).
WordBits == 4
\* Largest capacity passed to new.
MaxCap == 6
\* Largest alignment passed to new (non powers of two included).
MaxAlign == 4
\* Largest number of successful allocate calls on one region.
MaxAllocs == 3
\* Largest number of clear calls on one region.
MaxClears == 2
\* Highest block address the system allocator hands out.
MaxBase == 4
\* Callers sharing one region under the external lock.
NumCallers == 2
\* Largest ordinary request of a caller under the lock.
MaxReq == 2

\* ------------------------------------------------------- machine integers
WordSize == 2 ^ WordBits
UsizeMax == WordSize - 1
IsizeMax == (WordSize \div 2) - 1
Usize == 0..UsizeMax

\* The absent value of an Option<usize>.
None == -1

RECURSIVE BitAnd(_, _)
\* x & y on machine words, bit by bit.
BitAnd(x, y) ==
    IF x = 0 \/ y = 0 THEN 0
    ELSE (x % 2) * (y % 2) + 2 * BitAnd(x \div 2, y \div 2)

\* !x on a machine word.
BitNot(x) == UsizeMax - x

\* usize::is_power_of_two, used by Layout::from_size_align.
IsPowerOfTwo(a) == a > 0 /\ BitAnd(a, a - 1) = 0

\* Layout::from_size_align(size, align).is_ok()
LayoutOk(size, align) ==
    /\ IsPowerOfTwo(align)
    /\ size <= IsizeMax - (align - 1)

\* The addresses System.alloc(layout) may return: non-null, a multiple of
\* the layout's alignment, the block [a, a + size) inside the address space.
SystemAlloc(size, align) ==
    {a \in 1..MaxBase : a % align = 0 /\ a + size <= UsizeMax}

\* ------------------------------------------------------------------ state
VARIABLES
    state,     \* "Uninit", "Live", "Released" (block freed), "Aborted" (process ended)
    region,    \* the struct: [layout |-> [size, align], start, end, ptr]
    deallocs,  \* System.dealloc calls made on the block
    handed,    \* the ranges returned by successful allocate calls, oldest first
    last,      \* the last call and its outcome
    lock,      \* the external lock: 0 when free, else the caller holding it
    callers    \* each caller's place in its allocate call and the call's locals

vars == <<state, region, deallocs, handed, last, lock, callers>>

Callers == 1..NumCallers

\* A caller outside any call.
Idle == [pc |-> "idle", num_bytes |-> 0, ptr |-> 0, new_ptr |-> 0]

\* The values the variables take.
TypeOK ==
    /\ state \in {"Uninit", "Live", "Released", "Aborted"}
    /\ region.layout.size \in 0..MaxCap /\ region.layout.align \in 1..MaxAlign
    /\ region.start \in Usize /\ region.end \in Usize /\ region.ptr \in Usize
    /\ deallocs \in 0..MaxClears
    /\ Len(handed) <= MaxAllocs
    /\ last.op \in {"none", "new", "allocate", "clear",
                   "allocated", "capacity", "end", "ptr"}
    /\ last.outcome \in {"none", "ok", "panic", "abort"}
    /\ lock \in {0} \cup Callers
    /\ \A c \in Callers :
         /\ callers[c].pc \in {"idle", "locked", "checked"}
         /\ callers[c].num_bytes \in Usize

NoCall == [op |-> "none", outcome |-> "none", arg |-> 0, arg2 |-> 0,
           old |-> 0, ret |-> None, why |-> "none", msg |-> <<>>]

Call(op, outcome, arg, arg2, old, ret, why, msg) ==
    [op |-> op, outcome |-> outcome, arg |-> arg, arg2 |-> arg2,
     old |-> old, ret |-> ret, why |-> why, msg |-> msg]

\* ------------------------------------------------------------ accessors
\* Variant: the bytes counted from the wrong end of the block.
AllocatedFromStart == region.ptr - region.start

allocated == region.end - region.ptr

capacity == region.layout.size

\* ------------------------------------------------------------------- new
\* Variant: the cursor of an upward bump allocator.
InitialPtrAtStart(start, end) == start

\* let ptr = end;
InitialPtr(start, end) == end

\* The struct built by new from the block System.alloc returned.
NewRegion(cap, align, start) ==
    LET end == start + cap
    IN  [layout |-> [size |-> cap, align |-> align],
         start |-> start, end |-> end, ptr |-> InitialPtr(start, end)]

new(cap, align) ==
    /\ state = "Uninit"
    /\ IF ~LayoutOk(cap, align)
       THEN \* Layout::from_size_align(..).unwrap() panics
            /\ last' = Call("new", "panic", cap, align, 0, None, "layout", <<>>)
            /\ UNCHANGED <<state, region, deallocs, handed>>
       ELSE \/ \* System.alloc returned null: handle_alloc_error
               /\ state' = "Aborted"
               /\ last' = Call("new", "abort", cap, align, 0, None, "oom", <<>>)
               /\ UNCHANGED <<region, deallocs, handed>>
            \/ \E a \in SystemAlloc(cap, align) :
                 /\ state' = "Live"
                 /\ region' = NewRegion(cap, align, a)
                 /\ last' = Call("new", "ok", cap, align, 0, a, "none", <<>>)
                 /\ UNCHANGED <<deallocs, handed>>

\* -------------------------------------------------------------- allocate
\* Variant: ptr.wrapping_sub(num_bytes)
WrappingSub(a, b) == (a - b) % WordSize

\* ptr.checked_sub(num_bytes)
CheckedSub(a, b) == IF b > a THEN None ELSE a - b

\* Variant: the mask taken from align instead of align - 1.
RoundDownBadMask(p, align) == BitAnd(p, BitNot(align))

\* Variant: rounding up, as an upward bump allocator does.
RoundUpward(p, align) == BitAnd(p + (align - 1), BitNot(align - 1))

\* new_ptr & !(self.layout.align() - 1)
RoundDown(p, align) == BitAnd(p, BitNot(align - 1))

\* Variant: the capacity check refusing the block's lowest address.
ExhaustedAtStart(new_ptr, start) == new_ptr <= start

\* Variant: the capacity check off by one.
ExhaustedOffByOne(new_ptr, start) == new_ptr + 1 < start

\* if new_ptr < start
Exhausted(new_ptr, start) == new_ptr < start

\* Variant: self.ptr.add(ptr - new_ptr)
PtrAdd(selfptr, ptr, new_ptr) == selfptr + (ptr - new_ptr)

\* self.ptr.sub(ptr - new_ptr)
PtrSub(selfptr, ptr, new_ptr) == selfptr - (ptr - new_ptr)

\* Variant: the bump written to end as well.
BumpMovesEnd(r, new_ptr) ==
    [r EXCEPT !.ptr = PtrSub(r.ptr, r.ptr, new_ptr), !.end = new_ptr]

\* self.ptr = self.ptr.sub(ptr - new_ptr);
Bump(r, new_ptr) == [r EXCEPT !.ptr = PtrSub(r.ptr, r.ptr, new_ptr)]

\* Variant: the cursor written before the capacity check.
BumpBeforeCheck(r, new_ptr) == Bump(r, new_ptr)

\* The struct after the panic at new_ptr < start: nothing was written yet.
OnExhausted(r, new_ptr) == r

\* Variant: the message counting this call's bytes only.
ExhaustedMsgThisCall(r, new_ptr) == <<r.ptr - new_ptr, r.layout.size>>

\* The panic message's two numbers: self.end as usize - new_ptr, self.capacity()
ExhaustedMsg(r, new_ptr) == <<r.end - new_ptr, r.layout.size>>

allocate(num_bytes) ==
    /\ state \in {"Live", "Released"}
    /\ Len(handed) < MaxAllocs
    /\ LET ptr == region.ptr
           sub == CheckedSub(ptr, num_bytes)
           new_ptr == RoundDown(sub, region.layout.align)
       IN  IF sub = None
           THEN \* .expect("ptr sub overflowed")
                /\ last' = Call("allocate", "panic", num_bytes, 0, ptr, None,
                                "overflow", <<>>)
                /\ UNCHANGED <<state, region, deallocs, handed>>
           ELSE IF Exhausted(new_ptr, region.start)
           THEN /\ last' = Call("allocate", "panic", num_bytes, 0, ptr, None,
                                "exhausted", ExhaustedMsg(region, new_ptr))
                /\ region' = OnExhausted(region, new_ptr)
                /\ UNCHANGED <<state, deallocs, handed>>
           ELSE \/ /\ region' = Bump(region, new_ptr)
                   /\ handed' = Append(handed, [base |-> region'.ptr, top |-> ptr])
                   /\ last' = Call("allocate", "ok", num_bytes, 0, ptr,
                                   region'.ptr, "none", <<>>)
                   /\ UNCHANGED <<state, deallocs>>
                \/ \* pointer arithmetic by a non-zero offset inside a freed
                   \* block is undefined: a checking build stops the process
                   /\ state = "Released"
                   /\ ptr # new_ptr
                   /\ state' = "Aborted"
                   /\ last' = Call("allocate", "abort", num_bytes, 0, ptr, None,
                                   "dangling", <<>>)
                   /\ UNCHANGED <<region, deallocs, handed>>

\* ----------------------------------------------------------------- clear
\* Variant: clear as a reset that reserves the block again when it is gone.
DeallocOrReserve(s) == IF s = "Live" THEN "Released" ELSE "Live"

\* System.dealloc(self.start, self.layout): the block is back with the system.
Dealloc(s) == "Released"

clear ==
    /\ state \in {"Live", "Released"}
    /\ deallocs < MaxClears
    /\ \/ /\ state' = Dealloc(state)
          /\ deallocs' = deallocs + 1
          /\ last' = Call("clear", "ok", 0, 0, region.ptr, None, "none", <<>>)
          /\ UNCHANGED <<region, handed>>
       \/ \* freeing a freed block is undefined: the system allocator may
          \* detect it and stop the process
          /\ state = "Released"
          /\ state' = "Aborted"
          /\ deallocs' = deallocs + 1
          /\ last' = Call("clear", "abort", 0, 0, region.ptr, None,
                          "double free", <<>>)
          /\ UNCHANGED <<region, handed>>

\* ------------------------------------------------------- accessor calls
\* pub(crate) fn end(&self)
end == region.end

\* pub(crate) fn ptr(&self)
ptr == region.ptr

Accessors == {"allocated", "capacity", "end", "ptr"}

\* What a call of the accessor returns.
Returns(acc) ==
    CASE acc = "allocated" -> allocated
      [] acc = "capacity" -> capacity
      [] acc = "end" -> end
      [] acc = "ptr" -> ptr

\* A call of an accessor: &self, a read of the struct's fields.
inspect(acc) ==
    /\ state \in {"Live", "Released"}
    /\ last' = Call(acc, "ok", 0, 0, region.ptr, Returns(acc), "none", <<>>)
    /\ UNCHANGED <<state, region, deallocs, handed>>

\* ------------------------------------------------------------------ spec
Init ==
    /\ state = "Uninit"
    /\ region = [layout |-> [size |-> 0, align |-> 1],
                 start |-> 0, end |-> 0, ptr |-> 0]
    /\ deallocs = 0
    /\ handed = <<>>
    /\ last = NoCall
    /\ lock = 0
    /\ callers = [c \in Callers |-> Idle]

\* One owner calling the region; the lock and the callers take no part.
Next ==
    \/ \E cap \in 1..MaxCap, align \in 1..MaxAlign :
         new(cap, align) /\ UNCHANGED <<lock, callers>>
    \/ \E num_bytes \in Usize :
         allocate(num_bytes) /\ UNCHANGED <<lock, callers>>
    \/ clear /\ UNCHANGED <<lock, callers>>
    \/ \E acc \in Accessors : inspect(acc) /\ UNCHANGED <<lock, callers>>

Spec == Init /\ [][Next]_vars

\* ------------------------------------------- callers under an external lock
\* The sizes the callers ask for: small ones and the largest word.
LockRequests == (0..MaxReq) \cup {UsizeMax}

\* Variant: a lock that lets a second caller in.
CanLockAlways(c) == TRUE

\* The lock can be taken when no caller holds it.
CanLock(c) == lock = 0

\* The lock after its holder's guard is dropped, by return or by the unwinding
\* of a panic: free, and not poisoned.
Unlocked == 0

\* The caller takes the lock and calls allocate(num_bytes).
Acquire(c, num_bytes) ==
    /\ state = "Live"
    /\ callers[c].pc = "idle"
    /\ Len(handed) < MaxAllocs
    /\ CanLock(c)
    /\ lock' = c
    /\ callers' = [callers EXCEPT ![c] = [Idle EXCEPT !.pc = "locked",
                                                      !.num_bytes = num_bytes]]
    /\ UNCHANGED <<state, region, deallocs, handed, last>>

\* allocate up to the capacity check: the read of the cursor, checked_sub, the
\* rounding and the comparison; a panic unwinds out of the critical section
\* and the caller is outside any call again.
ReadCheck(c) ==
    /\ callers[c].pc = "locked"
    /\ LET n == callers[c].num_bytes
           p == region.ptr
           sub == CheckedSub(p, n)
           new_ptr == RoundDown(sub, region.layout.align)
       IN  IF sub = None
           THEN /\ last' = Call("allocate", "panic", n, c, p, None,
                                "overflow", <<>>)
                /\ callers' = [callers EXCEPT ![c] = Idle]
                /\ lock' = Unlocked
                /\ UNCHANGED <<state, region, deallocs, handed>>
           ELSE IF Exhausted(new_ptr, region.start)
           THEN /\ last' = Call("allocate", "panic", n, c, p, None,
                                "exhausted", ExhaustedMsg(region, new_ptr))
                /\ region' = OnExhausted(region, new_ptr)
                /\ callers' = [callers EXCEPT ![c] = Idle]
                /\ lock' = Unlocked
                /\ UNCHANGED <<state, deallocs, handed>>
           ELSE /\ callers' = [callers EXCEPT ![c] =
                                 [pc |-> "checked", num_bytes |-> n,
                                  ptr |-> p, new_ptr |-> new_ptr]]
                /\ UNCHANGED <<state, region, deallocs, handed, last, lock>>

\* The write-back of the cursor, the return, and the release of the lock.
Write(c) ==
    /\ callers[c].pc = "checked"
    /\ region' = [region EXCEPT !.ptr = PtrSub(region.ptr, callers[c].ptr,
                                                callers[c].new_ptr)]
    /\ handed' = Append(handed, [base |-> region'.ptr, top |-> callers[c].ptr])
    /\ last' = Call("allocate", "ok", callers[c].num_bytes, c, callers[c].ptr,
                    region'.ptr, "none", <<>>)
    /\ callers' = [callers EXCEPT ![c] = Idle]
    /\ lock' = Unlocked
    /\ UNCHANGED <<state, deallocs>>

\* A region right after a successful new, shared by the callers.
InitLock ==
    /\ state = "Live"
    /\ \E cap \in 1..MaxCap, align \in 1..MaxAlign :
         /\ LayoutOk(cap, align)
         /\ \E a \in SystemAlloc(cap, align) : region = NewRegion(cap, align, a)
    /\ deallocs = 0
    /\ handed = <<>>
    /\ last = NoCall
    /\ lock = 0
    /\ callers = [c \in Callers |-> Idle]

NextLock ==
    \/ \E c \in Callers, num_bytes \in LockRequests : Acquire(c, num_bytes)
    \/ \E c \in Callers : ReadCheck(c)
    \/ \E c \in Callers : Write(c)

SpecLock == InitLock /\ [][NextLock]_vars

\* ------------------------------------------------------------ properties
Constructed == state \in {"Live", "Released"}

Allocated == last.op = "allocate" /\ last.outcome = "ok"

Refused == last.op = "allocate" /\ last.outcome # "ok"

\* The addresses of a handed-out range [base, top).
Range(h) == {a \in Usize : h.base <= a /\ a < h.top}

RECURSIVE SumConsumed(_)
\* The bytes consumed by the calls of a sequence of handed-out ranges.
SumConsumed(hs) ==
    IF hs = <<>> THEN 0 ELSE (Head(hs).top - Head(hs).base) + SumConsumed(Tail(hs))

\* n rounded up to a multiple of a.
RoundUpTo(n, a) == ((n + a - 1) \div a) * a

\* C1: in every state reached from new by allocate calls, successful or
\* aborted, start <= ptr <= end.
CursorInBounds ==
    Constructed => region.start <= region.ptr /\ region.ptr <= region.end

CursorInBoundsWitness ==
    /\ state = "Live"
    /\ Len(handed) >= 2
    /\ Refused
    /\ region.start < region.ptr /\ region.ptr < region.end

\* C2: the ranges [new_ptr, old_ptr) handed out by successful allocate calls
\* are ranges (new_ptr <= old_ptr), pairwise disjoint, and inside [start, end);
\* padding belongs to the call that consumed it.
HandedDisjoint ==
    /\ \A i \in 1..Len(handed) :
         /\ handed[i].base <= handed[i].top
         /\ region.start <= handed[i].base
         /\ handed[i].top <= region.end
    /\ \A i, j \in 1..Len(handed) :
         i # j => Range(handed[i]) \cap Range(handed[j]) = {}

HandedDisjointWitness ==
    /\ Len(handed) >= 3
    /\ \A i \in 1..Len(handed) : Range(handed[i]) # {}
    /\ \E i \in 1..Len(handed) :
         handed[i].top - handed[i].base > region.layout.align

\* C3: after a successful allocate(n), n = 0 and capacities that are no
\* multiple of the alignment included, the returned address is the new cursor
\* and a multiple of the alignment.
ReturnedAligned ==
    Allocated => /\ last.ret = region.ptr
                 /\ last.ret % region.layout.align = 0

ReturnedAlignedWitness ==
    /\ Allocated
    /\ last.arg = 0
    /\ last.old = region.end
    /\ region.end % region.layout.align # 0
    /\ last.ret # last.old

\* C4: a successful allocate(n) gives at least n bytes below the old cursor:
\* old_ptr - new_ptr >= n and [new_ptr, new_ptr + n) is inside [start, old_ptr).
AtLeastRequested ==
    Allocated => /\ last.old - last.ret >= last.arg
                 /\ region.start <= last.ret
                 /\ last.ret + last.arg <= last.old

AtLeastRequestedWitness ==
    /\ Allocated
    /\ last.arg > 0
    /\ last.old - last.ret > last.arg

\* C5 as stated: if n rounded up to a multiple of the alignment exceeds the
\* headroom ptr - start, allocate(n) aborts.
RoundedExceedsAborts ==
    (/\ last.op = "allocate"
     /\ RoundUpTo(last.arg, region.layout.align) > last.old - region.start)
    => last.outcome # "ok"

\* C5 amended: if n exceeds the headroom ptr - start, allocate(n) aborts and
\* returns no address; and when the cursor is a multiple of the alignment, so
\* it does if n rounded up to a multiple of the alignment exceeds the headroom.
ExceedsAborts ==
    last.op = "allocate" =>
        /\ last.arg > last.old - region.start
              => last.outcome # "ok" /\ last.ret = None
        /\ (/\ last.old % region.layout.align = 0
            /\ RoundUpTo(last.arg, region.layout.align) > last.old - region.start)
              => last.outcome # "ok" /\ last.ret = None

ExceedsAbortsWitness ==
    /\ state = "Live"
    /\ Refused
    /\ handed # <<>>
    /\ last.arg <= last.old
    /\ last.arg = (last.old - region.start) + 1

\* C6: allocated_bytes() is the sum of the bytes the successful calls consumed
\* (old_ptr - new_ptr each), and never more than capacity().
AllocatedIsSum ==
    Constructed => /\ allocated = SumConsumed(handed)
                   /\ allocated <= capacity

AllocatedIsSumWitness ==
    /\ Len(handed) >= 2
    /\ Allocated
    /\ last.old - last.ret > last.arg
    /\ allocated < capacity

\* C7: right after new(C, A): end = start + C, ptr = end, allocated_bytes() = 0
\* and capacity() = C.
FreshRegion ==
    (last.op = "new" /\ last.outcome = "ok") =>
        /\ region.start = last.ret
        /\ region.end = region.start + last.arg
        /\ region.ptr = region.end
        /\ allocated = 0
        /\ capacity = last.arg
        /\ region.layout.align = last.arg2

FreshRegionWitness ==
    /\ last.op = "new" /\ last.outcome = "ok"
    /\ last.arg2 > 1
    /\ last.arg % last.arg2 # 0

\* C8: no call on a constructed region, allocate successful or aborted
\* included, changes capacity(), the alignment, start or end.
OnlyCursorMoves ==
    [][Constructed => /\ region'.layout = region.layout
                      /\ region'.start = region.start
                      /\ region'.end = region.end
                      /\ capacity' = capacity]_vars

OnlyCursorMovesWitness ==
    /\ Len(handed) >= 2
    /\ Refused
    /\ region.ptr # region.end

\* C9: on a live region allocated_bytes() = end - ptr never decreases.
NeverMovesUp ==
    [][state = "Live" => allocated' >= allocated]_vars

NeverMovesUpWitness ==
    /\ state = "Live"
    /\ Len(handed) >= 2
    /\ Allocated
    /\ last.ret < last.old

\* C10 as stated: once clear has been called, no later allocate call returns
\* an address.
NoAddressAfterClear ==
    ~(state = "Released" /\ Allocated)

\* C10 amended: no call takes a released region back to live (the block is
\* never reserved again); allocate itself does not refuse a released region.
ReleasedIsTerminal ==
    [][state = "Released" => state' \in {"Released", "Aborted"}]_vars

ReleasedIsTerminalWitness ==
    /\ state = "Released"
    /\ Allocated
    /\ last.ret < last.old

\* C11 as stated: the block is returned to the system at most once.
ReleasedAtMostOnce ==
    deallocs <= 1

\* C11 amended: a live block has never been returned and the first clear
\* returns it once; clear itself does not refuse a second call, which hands
\* the same block to System.dealloc again.
ReturnedByFirstClear ==
    /\ state \in {"Uninit", "Live"} => deallocs = 0
    /\ state = "Released" => deallocs >= 1
    /\ (last.op = "clear" /\ last.outcome = "ok") => state = "Released"

ReturnedByFirstClearWitness ==
    /\ state = "Released"
    /\ last.op = "clear" /\ last.outcome = "ok"
    /\ deallocs = 2

\* C12 as stated: the exhaustion abort carries the requested byte count n and
\* the remaining headroom ptr - start.
MsgIsRequestAndHeadroom ==
    (last.op = "allocate" /\ last.why = "exhausted") =>
        last.msg = <<last.arg, last.old - region.start>>

\* C12 amended: the exhaustion abort carries the byte count the cursor was
\* asked to reach, allocated_bytes() + n + rounding padding, and capacity();
\* the first exceeds the second.
MsgIsTotalAndCapacity ==
    (last.op = "allocate" /\ last.why = "exhausted") =>
        /\ last.msg = <<allocated + last.arg
                          + ((last.old - last.arg) % region.layout.align),
                        capacity>>
        /\ last.msg[1] > last.msg[2]

MsgIsTotalAndCapacityWitness ==
    /\ last.op = "allocate" /\ last.why = "exhausted"
    /\ handed # <<>>
    /\ allocated > 0
    /\ (last.old - last.arg) % region.layout.align # 0

\* The candidate ptr - n rounded down to a multiple of a, as an integer.
Candidate(p, n, a) == ((p - n) \div a) * a

\* C13: in a live region whose capacity C is a multiple of the alignment A and
\* whose cursor came down in steps of A, allocate(A) aborts only when C/A such
\* steps were made; then ptr = start, allocated_bytes() = capacity(), and every
\* allocate(n) with n > 0 aborts.
FillsExactly ==
    (/\ state = "Live"
     /\ capacity % region.layout.align = 0
     /\ \A i \in 1..Len(handed) :
          handed[i].top - handed[i].base = region.layout.align)
    => LET A == region.layout.align
           full == Len(handed) * A = capacity
       IN  /\ (last.op = "allocate" /\ last.arg = A /\ ~full)
                => last.outcome = "ok"
           /\ full => region.ptr = region.start /\ allocated = capacity
           /\ (full /\ last.op = "allocate" /\ last.arg > 0
                    /\ last.old = region.start)
                => last.outcome = "panic"

FillsExactlyWitness ==
    /\ state = "Live"
    /\ region.layout.align >= 2
    /\ Len(handed) >= 2
    /\ Len(handed) * region.layout.align = capacity
    /\ \A i \in 1..Len(handed) :
         handed[i].top - handed[i].base = region.layout.align
    /\ Refused
    /\ last.arg = region.layout.align

\* C14: on a live region allocate(n) succeeds exactly when ptr - n rounded
\* down to a multiple of A is >= start, and then the new cursor and the
\* returned address are that rounded candidate; otherwise it aborts.
SucceedsIffFits ==
    (state = "Live" /\ last.op = "allocate") =>
        LET cand == Candidate(last.old, last.arg, region.layout.align)
        IN  /\ last.outcome = "ok" <=> cand >= region.start
            /\ last.outcome = "ok" => last.ret = cand /\ region.ptr = cand
            /\ last.outcome # "ok" => last.outcome = "panic" /\ last.ret = None

SucceedsIffFitsWitness ==
    /\ state = "Live"
    /\ Allocated
    /\ last.ret = region.start
    /\ last.ret < last.old - last.arg
    /\ Len(handed) >= 2

\* C15: a successful allocate(n) consumes d = old_ptr - new_ptr bytes with
\* n <= d < n + A, and d is n rounded up to a multiple of A when the cursor
\* before the call was a multiple of A.
PaddingBelowAlign ==
    Allocated =>
        LET d == last.old - last.ret
            A == region.layout.align
        IN  /\ last.arg <= d
            /\ d < last.arg + A
            /\ last.old % A = 0 => d = RoundUpTo(last.arg, A)

PaddingBelowAlignWitness ==
    /\ Allocated
    /\ last.old % region.layout.align = 0
    /\ last.old # region.end
    /\ last.old - last.ret = last.arg + (region.layout.align - 1)
    /\ region.layout.align >= 2

\* C16: an allocate call that aborts (exhaustion or subtraction underflow)
\* leaves the struct, the block and the handed-out ranges as they were.
AbortChangesNothing ==
    [][(last'.op = "allocate" /\ last'.outcome # "ok")
         => /\ region' = region
            /\ handed' = handed
            /\ allocated' = allocated /\ capacity' = capacity
            /\ last'.old = region.ptr]_vars

\* An exhaustion abort on a region that has handed out ranges and has
\* headroom left for a smaller request.
AbortChangesNothingWitness ==
    /\ state = "Live"
    /\ Refused
    /\ last.why = "exhausted"
    /\ handed # <<>>
    /\ region.ptr > region.start

\* C20 as stated: allocate returns an address in [start, old_ptr] or aborts,
\* and never an address above the old cursor or outside [start, end).
NeverWrapsHalfOpen ==
    Allocated => /\ region.start <= last.ret /\ last.ret <= last.old
                 /\ last.ret < region.end

\* C20 amended: for every num_bytes of the word range the subtraction never
\* wraps: a num_bytes above the cursor aborts, and a returned address is in
\* [start, old_ptr], so in [start, end]; it is end only for allocate(0) with
\* the cursor still at end.
NeverWraps ==
    last.op = "allocate" =>
        /\ last.arg > last.old => last.outcome = "panic" /\ last.why = "overflow"
        /\ last.outcome = "ok" =>
             /\ region.start <= last.ret /\ last.ret <= last.old
             /\ last.old <= region.end
             /\ last.ret = region.end => last.arg = 0 /\ last.old = region.end

NeverWrapsWitness ==
    /\ last.op = "allocate"
    /\ last.arg = UsizeMax
    /\ last.why = "overflow"
    /\ handed # <<>>

\* C17: a call of an accessor returns end - ptr (allocated), the layout's
\* size (capacity), end (end) or the cursor (ptr), and changes nothing of the
\* struct or the block.
AccessorsPure ==
    [][last'.op \in Accessors =>
         /\ region' = region /\ state' = state /\ handed' = handed
         /\ last'.outcome = "ok"
         /\ last'.op = "allocated" => last'.ret = region.end - region.ptr
         /\ last'.op = "capacity" => last'.ret = region.layout.size
         /\ last'.op = "end" => last'.ret = region.end
         /\ last'.op = "ptr" => last'.ret = region.ptr]_vars

AccessorsPureWitness ==
    /\ last.op = "allocated"
    /\ last.ret > 0
    /\ last.ret < capacity
    /\ Len(handed) >= 2

Inside(c) == callers[c].pc \in {"locked", "checked"}

\* C18: with every allocate call under the lock, in every interleaving of the
\* callers at most one is inside allocate, the cursor it read is the cursor it
\* writes back from, the ranges handed out are pairwise disjoint and inside
\* the block, and start <= ptr <= end.
LockedCallersDisjoint ==
    /\ \A c \in Callers : Inside(c) => lock = c
    /\ \A c \in Callers : callers[c].pc = "checked" => callers[c].ptr = region.ptr
    /\ region.start <= region.ptr /\ region.ptr <= region.end
    /\ \A i \in 1..Len(handed) :
         /\ handed[i].base <= handed[i].top
         /\ region.start <= handed[i].base
         /\ handed[i].top <= region.end
    /\ \A i, j \in 1..Len(handed) :
         i # j => Range(handed[i]) \cap Range(handed[j]) = {}

LockedCallersDisjointWitness ==
    /\ Len(handed) >= 2
    /\ last.op = "allocate" /\ last.outcome = "ok"
    /\ last.ret < last.old
    /\ \E d \in Callers :
         /\ d # last.arg2
         /\ callers[d].pc = "checked"
         /\ callers[d].ptr = last.ret
         /\ callers[d].new_ptr < callers[d].ptr

\* C19: a panic inside allocate leaves the lock free, not poisoned and not
\* with the caller that panicked: the lock is held exactly while a caller is
\* inside allocate, and right after the panic the cursor is where the aborted
\* call found it.
LockSurvivesPanic ==
    /\ lock = 0 <=> \A c \in Callers : ~Inside(c)
    /\ \A c \in Callers : Inside(c) => lock = c
    /\ (last.op = "allocate" /\ last.outcome = "panic" /\ lock = 0)
         => /\ region.ptr = last.old
            /\ region.start <= region.ptr /\ region.ptr <= region.end

\* After a caller's exhaustion panic another caller holds the lock and has
\* passed the capacity check on the cursor the panic left.
LockSurvivesPanicWitness ==
    /\ last.op = "allocate" /\ last.outcome = "panic" /\ last.why = "exhausted"
    /\ handed # <<>>
    /\ \E d \in Callers :
         /\ d # last.arg2
         /\ lock = d
         /\ callers[d].pc = "checked"
         /\ callers[d].ptr = last.old
         /\ callers[d].new_ptr < callers[d].ptr

====
